---- MODULE Spec2Model ----
(***************************************************************************)
(* Model of the optics engine of the 4D emittance measurement scripts      *)
(* (lib/optics.py): the PhaseController's field access in the model, live  *)
(* and book domains, the bounded live ramp of set_fields, the default      *)
(* optics, get_phases_for_scan with lin_phase_range, and safe_sync; of     *)
(* reconstruct (lib/analysis.py); and of the 'Calculate model optics'      *)
(* handler of the panel (lib/phase_controller_panel.py).                   *)
(*                                                                         *)
(* Field strengths are floats in the program.  Here they are fixed-point   *)
(* integers, Scale quanta per 1.0 T/m, and max_frac_change is a rational   *)
(* <<num, den>>.  Scale is chosen so that every product                    *)
(* max_frac_change * |book| computed during at most MaxIters loop          *)
(* iterations is an integer number of quanta (checked by ExactArithmetic), *)
(* so the arithmetic of the model is exact.                                *)
(***************************************************************************)
EXTENDS Integers, Sequences, FiniteSets, TLC

VARIABLES
    model,          \* quad id -> field of the model elements mapped to the node
    live,           \* power supply id -> live field (field units)
    book,           \* power supply id -> value of the B_Book channel (CA units)
    pc,             \* position inside set_fields(..., 'live', ...)
    arg,            \* arguments of the running set_fields call
    stop,           \* local `stop` of set_fields
    iters,          \* local `iters` of set_fields
    idx,            \* position of the running for-loop over zip(quad_ids, fields)
    writes,         \* channel writes of the running call, in program order
    sleeps,         \* number of time.sleep calls of the running call
    entry,          \* book and live fields on entry of the running call
    default_fields,             \* self.default_fields (one per independent quad)
    default_betas_at_target,    \* self.default_betas_at_target
    trajectory,                 \* self.trajectory, the cached result of track()
    kinetic_energy,             \* self.kinetic_energy
    captured,       \* fields read by the latest set_current_optics_as_default
    sync_mode,      \* self.sync_mode
    scenario_mode,  \* synchronization mode of self.scenario
    synced,         \* mode of the latest successful resync of self.scenario
    call,           \* the last public call and how it ended
    model_fields_list,  \* panel.model_fields_list of the PhaseControllerPanel
    calc,           \* the running 'Calculate model optics' handler of the panel
    scan_index_items    \* number of numeric items of panel.scan_index_dropdown

machine == <<model, live, book>>

frame == <<pc, arg, stop, iters, idx, writes, sleeps, entry>>

optics == <<default_fields, default_betas_at_target, trajectory, kinetic_energy, captured>>

sync == <<sync_mode, scenario_mode, synced>>

panel == <<model_fields_list, calc, scan_index_items>>

vars == <<machine, frame, optics, sync, call, panel>>

(***************************************************************************)
(* Bounds and units                                                        *)
(***************************************************************************)
MaxIters == 2

Scale == 10 ^ (2 * MaxIters - 1)

Abs(x) == IF x < 0 THEN -x ELSE x

FieldVals == {-100 * Scale, 0, 100 * Scale, 110 * Scale}

Fracs == {<<0, 1>>, <<1, 100>>, <<1, 2>>, <<1, 1>>}

(***************************************************************************)
(* The lattice: quadrupole nodes in sequence order and their main supplies *)
(***************************************************************************)
quad_ids == <<"QH18", "QV19", "QH20">>

ps_ids == <<"PS_QH18", "PS_QV19", "PS_QH18">>

Quads == {quad_ids[i] : i \in 1..Len(quad_ids)}

Supplies == {ps_ids[i] : i \in 1..Len(ps_ids)}

IndexOf(q) == CHOOSE i \in 1..Len(quad_ids) : quad_ids[i] = q

MainSupply(q) == ps_ids[IndexOf(q)]

\* A quad is independent when it is the first quad of its power supply.
IsInd(i) == \A j \in 1..(i - 1) : ps_ids[j] # ps_ids[i]

RECURSIVE IndFrom(_)
IndFrom(i) ==
    IF i > Len(quad_ids) THEN <<>>
    ELSE IF IsInd(i) THEN <<quad_ids[i]>> \o IndFrom(i + 1)
    ELSE IndFrom(i + 1)

ind_quad_ids == IndFrom(1)

IndQuads == {ind_quad_ids[i] : i \in 1..Len(ind_quad_ids)}

RECURSIVE DepsFrom(_, _)
DepsFrom(ind, i) ==
    IF i > Len(quad_ids) THEN <<>>
    ELSE IF ps_ids[i] = MainSupply(ind) /\ quad_ids[i] # ind
         THEN <<quad_ids[i]>> \o DepsFrom(ind, i + 1)
         ELSE DepsFrom(ind, i + 1)

shared_power_none(q) == <<>>

\* shared_power[q]: the quads sharing the supply of the independent quad q
\* (no entry, here the empty list, for any other quad).
shared_power(q) == IF q \in IndQuads THEN DepsFrom(q, 1) ELSE <<>>

\* Polarity of a quad, used by toFieldFromCA / toCAFromField.
Polarity(q) == IF q \in {"QV19"} THEN -1 ELSE 1

toFieldFromCA(q, v) == v * Polarity(q)

toCAFromField_raw(q, f) == f

toCAFromField(q, f) == f * Polarity(q)

\* Field values asked of a quad: a vertically focusing quad is not driven to the
\* largest horizontal value.
FieldValsOf(q) == IF Polarity(q) < 0 THEN FieldVals \ {110 * Scale} ELSE FieldVals

(***************************************************************************)
(* get_field / set_field                                                   *)
(***************************************************************************)
Opts == {"model", "live", "book", "bogus"}

ValidOpts == {"model", "live", "book"}

get_field(q, opt) ==
    IF opt = "model" THEN model[q]
    ELSE IF opt = "live" THEN live[MainSupply(q)]
    ELSE toFieldFromCA(q, book[MainSupply(q)])

\* set_field(q, f, 'model'): the node itself, then every quad of shared_power[q].
RECURSIVE SetAll(_, _, _)
SetAll(m, qs, f) ==
    IF qs = <<>> THEN m
    ELSE SetAll([m EXCEPT ![Head(qs)] = f], Tail(qs), f)

ModelAfter(m, q, f) == SetAll([m EXCEPT ![q] = f], shared_power(q), f)

LiveAfter(lv, q, f) == [lv EXCEPT ![MainSupply(q)] = f]

BookAfter(bk, q, f) == [bk EXCEPT ![MainSupply(q)] = toCAFromField(q, f)]

Branch_else(opt) == IF opt \in {"model", "book"} THEN opt ELSE "live"

\* The branch of the if/elif/else chain of get_field and set_field.
Branch(opt) == IF opt \in ValidOpts THEN opt ELSE "raise"

NoCall == [op |-> "none", opt |-> "none", args |-> <<>>, raised |-> "none", log |-> <<>>, ret |-> <<>>]

GetField(q, opt) ==
    /\ pc = "idle"
    /\ call' = [op |-> "get_field", opt |-> opt, args |-> <<>>,
                raised |-> IF Branch(opt) = "raise" THEN "ValueError" ELSE "none",
                log |-> <<>>, ret |-> <<>>]
    /\ UNCHANGED <<machine, frame, optics, sync, panel>>

SetField(q, f, opt) ==
    /\ pc = "idle"
    /\ model' = IF Branch(opt) = "model" THEN ModelAfter(model, q, f) ELSE model
    /\ live' = IF Branch(opt) = "live" THEN LiveAfter(live, q, f) ELSE live
    /\ book' = IF Branch(opt) = "book" THEN BookAfter(book, q, f) ELSE book
    /\ call' = [op |-> "set_field", opt |-> opt,
                args |-> IF opt = "model" THEN <<q, f>> ELSE <<>>,
                raised |-> IF Branch(opt) = "raise" THEN "ValueError" ELSE "none",
                log |-> <<>>, ret |-> <<>>]
    /\ UNCHANGED <<frame, optics, sync, panel>>

(***************************************************************************)
(* set_fields(quad_ids, fields, 'live', max_frac_change, max_iters)        *)
(***************************************************************************)
\* The defaults of set_fields: max_frac_change=0.01, sleep_time=0.5 [s], and
\* max_iters=100, a cap that is here the largest one considered
DefaultMaxFracChange == <<1, 100>>

DefaultSleepTime == <<1, 2>>

DefaultMaxIters == MaxIters

NoArg == [quad_ids |-> <<>>, fields |-> <<>>, max_frac_change |-> <<0, 1>>, max_iters |-> 0,
          sleep_time |-> <<0, 1>>]

NoEntry == [book |-> <<>>, live |-> <<>>]

\* zip(quad_ids, fields)
NPairs == IF Len(arg.quad_ids) < Len(arg.fields) THEN Len(arg.quad_ids) ELSE Len(arg.fields)

\* max_abs_change = max_frac_change * abs(book)
MaxAbsChange(frac, b) == (frac[1] * Abs(b)) \div frac[2]

LoopCond_nocap(s, i, max_iters) == ~s

\* while not stop and iters < max_iters
LoopCond(s, i, max_iters) == ~s /\ i < max_iters

\* if abs(change_needed) > max_abs_change
NeedsStep(change_needed, max_abs_change) == Abs(change_needed) > max_abs_change

NewField_jump(b, change_needed, max_abs_change) == b + change_needed

NewField(b, change_needed, max_abs_change) ==
    IF change_needed >= 0 THEN b + max_abs_change ELSE b - max_abs_change

\* The two set_field calls of one quad: book first, then live.  Each write is
\* recorded with the number of time.sleep calls that have returned before it.
WritePair(q, f) ==
    <<[chan |-> "book", quad |-> q, val |-> f, prev |-> get_field(q, "book"), at |-> sleeps],
      [chan |-> "live", quad |-> q, val |-> f, prev |-> get_field(q, "book"), at |-> sleeps]>>

Slices(s) ==
    {SubSeq(s, lo, hi) : lo \in 1..(Len(s) + 1), hi \in 0..Len(s)}

\* The target lists for a list of quads
TargetsFor(qids) ==
    {flds \in [1..Len(qids) -> FieldVals] :
        \A i \in 1..Len(qids) : flds[i] \in FieldValsOf(qids[i])}

SetFieldsLive(qids, flds, frac, max_iters) ==
    /\ pc = "idle"
    /\ pc' = "loop"
    /\ arg' = [quad_ids |-> qids, fields |-> flds,
               max_frac_change |-> frac, max_iters |-> max_iters,
               sleep_time |-> DefaultSleepTime]
    /\ stop' = FALSE
    /\ iters' = 0
    /\ idx' = 1
    /\ writes' = <<>>
    /\ sleeps' = 0
    /\ entry' = [book |-> [q \in Quads |-> get_field(q, "book")],
                 live |-> [q \in Quads |-> get_field(q, "live")]]
    /\ call' = [op |-> "set_fields", opt |-> "live", args |-> <<>>, raised |-> "none",
                log |-> <<>>, ret |-> <<>>]
    /\ UNCHANGED <<model, live, book, optics, sync, panel>>

LoopTest ==
    /\ pc = "loop"
    /\ IF LoopCond(stop, iters, arg.max_iters)
       THEN /\ pc' = "body"
            /\ stop' = TRUE
            /\ iters' = iters + 1
       ELSE /\ pc' = "final"
            /\ UNCHANGED <<stop, iters>>
    /\ idx' = 1
    /\ UNCHANGED <<model, live, book, arg, writes, sleeps, entry, call, optics, sync, panel>>

StepQuad ==
    /\ pc = "body"
    /\ idx <= NPairs
    /\ LET q == arg.quad_ids[idx]
           field == arg.fields[idx]
           b == get_field(q, "book")
           change_needed == field - b
           max_abs_change == MaxAbsChange(arg.max_frac_change, b)
           new_field == NewField(b, change_needed, max_abs_change)
       IN IF NeedsStep(change_needed, max_abs_change)
          THEN /\ stop' = FALSE
               /\ book' = BookAfter(book, q, new_field)
               /\ live' = LiveAfter(live, q, new_field)
               /\ writes' = writes \o WritePair(q, new_field)
          ELSE UNCHANGED <<stop, book, live, writes>>
    /\ idx' = idx + 1
    /\ UNCHANGED <<model, pc, arg, iters, sleeps, entry, call, optics, sync, panel>>

Sleep_skipped ==
    /\ pc = "body"
    /\ idx > NPairs
    /\ pc' = "loop"
    /\ UNCHANGED <<model, live, book, arg, stop, iters, idx, writes, sleeps, entry, call, optics, sync, panel>>

\* time.sleep(sleep_time), the last statement of the loop body
Sleep ==
    /\ pc = "body"
    /\ idx > NPairs
    /\ sleeps' = sleeps + 1
    /\ pc' = "loop"
    /\ UNCHANGED <<model, live, book, arg, stop, iters, idx, writes, entry, call, optics, sync, panel>>

FinalQuad ==
    /\ pc = "final"
    /\ idx <= NPairs
    /\ LET q == arg.quad_ids[idx]
           field == arg.fields[idx]
       IN /\ book' = BookAfter(book, q, field)
          /\ live' = LiveAfter(live, q, field)
          /\ writes' = writes \o WritePair(q, field)
    /\ idx' = idx + 1
    /\ UNCHANGED <<model, pc, arg, stop, iters, sleeps, entry, call, optics, sync, panel>>

SetFieldsReturn ==
    /\ pc = "final"
    /\ idx > NPairs
    /\ pc' = "done"
    /\ UNCHANGED <<model, live, book, arg, stop, iters, idx, writes, sleeps, entry, call, optics, sync, panel>>

\* Control is back in the caller: the frame of set_fields is gone.
Idle ==
    /\ pc = "done"
    /\ pc' = "idle"
    /\ arg' = NoArg
    /\ stop' = FALSE
    /\ iters' = 0
    /\ idx' = 1
    /\ writes' = <<>>
    /\ sleeps' = 0
    /\ entry' = NoEntry
    /\ UNCHANGED <<model, live, book, call, optics, sync, panel>>

(***************************************************************************)
(* Model fields, tracking and the default optics                           *)
(***************************************************************************)
ModelVals == {-100 * Scale, 110 * Scale}

KineticEnergies == {1, 2}

IndexIn(s, x) == CHOOSE i \in 1..Len(s) : s[i] = x

\* get_fields(quad_ids, 'model') read from the model fields m
GetFields(m, qids) == [i \in 1..Len(qids) |-> m[qids[i]]]

\* set_fields(quad_ids, fields, 'model'): set_field for each pair of the zip, in order
RECURSIVE SetFieldsOn(_, _, _)
SetFieldsOn(m, qids, flds) ==
    IF qids = <<>> \/ flds = <<>> THEN m
    ELSE SetFieldsOn(ModelAfter(m, Head(qids), Head(flds)), Tail(qids), Tail(flds))

\* track(): the envelope trajectory is a function of the model fields and of the
\* probe (kinetic energy and the matched initial Twiss parameters it determines).
Track(m, ke) == [fields |-> m, ke |-> ke]

\* beta_funcs(node_id) and phases(node_id) read the cached trajectory.
beta_funcs(traj, node_id) == [twiss |-> "beta", node |-> node_id, traj |-> traj]

phases(traj, node_id) == [twiss |-> "mu", node |-> node_id, traj |-> traj]

LastN(s, n) == IF Len(s) <= n THEN s ELSE SubSeq(s, Len(s) - n + 1, Len(s))

Done(op, opt) == [op |-> op, opt |-> opt, args |-> <<>>, raised |-> "none", log |-> <<>>, ret |-> <<>>]

SetFieldsModel(qids, flds) ==
    /\ pc = "idle"
    /\ model' = SetFieldsOn(model, qids, flds)
    /\ call' = Done("set_fields", "model")
    /\ UNCHANGED <<live, book, frame, optics, sync, panel>>

FieldsBranch_else(opt) == IF opt = "live" THEN "live" ELSE "model"

\* The branch of the if/elif chain of set_fields, which has no else
FieldsBranch(opt) == IF opt \in {"model", "live"} THEN opt ELSE "none"

\* set_fields(quad_ids, fields, opt) for an opt other than 'live'
SetFields(qids, flds, opt) ==
    /\ pc = "idle"
    /\ opt # "live"
    /\ model' = IF FieldsBranch(opt) = "model" THEN SetFieldsOn(model, qids, flds) ELSE model
    /\ call' = [op |-> "set_fields", opt |-> opt, args |-> <<qids, flds>>,
                raised |-> "none", log |-> <<>>, ret |-> <<>>]
    /\ UNCHANGED <<live, book, frame, optics, sync, panel>>

DefaultRead_stale(m) == default_fields

\* self.get_fields(self.ind_quad_ids, "model") of set_current_optics_as_default
DefaultRead(m) == GetFields(m, ind_quad_ids)

SetCurrentOpticsAsDefault ==
    /\ pc = "idle"
    /\ default_fields' = DefaultRead(model)
    /\ trajectory' = Track(model, kinetic_energy)
    /\ default_betas_at_target' = beta_funcs(trajectory', "RTBT:Tgt")
    /\ captured' = [i \in 1..Len(ind_quad_ids) |-> model[ind_quad_ids[i]]]
    /\ call' = Done("set_current_optics_as_default", "model")
    /\ UNCHANGED <<machine, frame, kinetic_energy, sync, panel>>

RestoreDefaultOpticsModel ==
    /\ pc = "idle"
    /\ model' = SetFieldsOn(model, ind_quad_ids, default_fields)
    /\ call' = Done("restore_default_optics", "model")
    /\ UNCHANGED <<live, book, frame, optics, sync, panel>>

SetKineticEnergy(ke) ==
    /\ pc = "idle"
    /\ kinetic_energy' = ke
    /\ trajectory' = Track(model, ke)
    /\ default_betas_at_target' = beta_funcs(trajectory', "RTBT:Tgt")
    /\ call' = Done("set_kinetic_energy", "model")
    /\ UNCHANGED <<machine, frame, default_fields, captured, sync, panel>>

(***************************************************************************)
(* Phase advances and the scan of get_phases_for_scan.  Angles are floats   *)
(* in the program.  Here an angle is a whole number of quanta, TwoPi quanta *)
(* to the turn; every angle given to the program is a multiple of 15        *)
(* degrees, and 15 degrees is MaxSteps! quanta, so that every quotient      *)
(* abs_diff / (n_steps - 1) and abs_diff / n_steps formed for at most       *)
(* MaxSteps steps is a whole number of quanta (checked by ExactPhases).     *)
(***************************************************************************)
MaxSteps == 6

RECURSIVE Factorial(_)
Factorial(n) == IF n <= 1 THEN 1 ELSE n * Factorial(n - 1)

Deg15 == Factorial(MaxSteps)

Pi == 12 * Deg15

TwoPi == 2 * Pi

\* x / y for a divisor of either sign
Quot(x, y) == IF y < 0 THEN -(x \div (-y)) ELSE x \div y

\* utils.radians(degrees)
radians(deg) == (deg * Pi) \div 180

\* utils.put_angle_in_range(angle): the angle wrapped into [0, 2pi)
put_angle_in_range(angle) == angle % TwoPi

Raise(e) == [raised |-> e, val |-> <<>>]

Return(v) == [raised |-> "none", val |-> v]

\* abs_diff of lin_phase_range
AbsDiff(mu_min, mu_max) ==
    LET abs_diff == Abs(mu_max - mu_min)
    IN IF abs_diff > Pi THEN TwoPi - abs_diff ELSE abs_diff

\* the divisor of step: n_steps - 1 with endpoint, n_steps without
StepDivisor(n_steps, endpoint) == IF endpoint THEN n_steps - 1 ELSE n_steps

\* for _ in range(k): phases.append(put_angle_in_range(phases[-1] + step))
RECURSIVE PhaseSteps(_, _, _)
PhaseSteps(phs, step, k) ==
    IF k <= 0 THEN phs
    ELSE PhaseSteps(Append(phs, put_angle_in_range(phs[Len(phs)] + step)), step, k - 1)

\* phases = [mu_min]
FirstPhase(mu_min) == mu_min

lin_phase_range(mu_min, mu_max, n_steps, endpoint) ==
    LET abs_diff == AbsDiff(mu_min, mu_max)
        den == StepDivisor(n_steps, endpoint)
    IN IF den = 0 THEN Raise("ZeroDivisionError")
       ELSE Return(PhaseSteps(<<FirstPhase(mu_min)>>, Quot(abs_diff, den), n_steps - 1))

Reversed(s) == [k \in 1..Len(s) |-> s[Len(s) + 1 - k]]

Repeat(n, v) == [k \in 1..n |-> v]

\* [[mux, muy] for mux, muy in zip(phases_x, phases_y)]
ZipPhases(xs, ys) ==
    [k \in 1..(IF Len(xs) < Len(ys) THEN Len(xs) ELSE Len(ys)) |-> <<xs[k], ys[k]>>]

HalfSteps_ceil(n_steps) == (n_steps + 1) \div 2

\* n = int(n_steps) // 2
HalfSteps(n_steps) == n_steps \div 2

\* The list get_phases_for_scan builds around the centre (mux0, muy0)
ScanPhases(mux0, muy0, phase_coverage, n_steps, scan_type) ==
    LET n == HalfSteps(n_steps)
        half == radians(phase_coverage) \div 2
        mux_min == put_angle_in_range(mux0 - half)
        mux_max == put_angle_in_range(mux0 + half)
        muy_min == put_angle_in_range(muy0 - half)
        muy_max == put_angle_in_range(muy0 + half)
        x1 == lin_phase_range(mux_min, mux_max, n_steps, TRUE)
        y1 == lin_phase_range(muy_min, muy_max, n_steps, TRUE)
        x2 == lin_phase_range(mux_min, mux_max, n, TRUE)
        y2 == lin_phase_range(muy_min, muy_max, n, TRUE)
    IN IF scan_type = 1
       THEN IF x1.raised # "none" THEN x1
            ELSE Return(ZipPhases(x1.val, Reversed(y1.val)))
       ELSE IF scan_type = 2
       THEN IF x2.raised # "none" THEN x2
            ELSE Return(ZipPhases(x2.val \o Repeat(n, mux0), Repeat(n, muy0) \o y2.val))
       ELSE Raise("UnboundLocalError")

ref_ws_id == "RTBT_Diag:WS24"

\* lin_phase_range as called from outside the controller
LinPhaseRange(mu_min, mu_max, n_steps, endpoint) ==
    /\ pc = "idle"
    /\ LET r == lin_phase_range(mu_min, mu_max, n_steps, endpoint)
       IN call' = [op |-> "lin_phase_range", opt |-> "none",
                   args |-> <<mu_min, mu_max, n_steps, endpoint>>,
                   raised |-> r.raised, log |-> <<>>, ret |-> r.val]
    /\ UNCHANGED <<machine, frame, optics, sync, panel>>

\* The phases read off the cached trajectory are (mux0, muy0).
GetPhasesForScan(mux0, muy0, phase_coverage, n_steps, scan_type) ==
    /\ pc = "idle"
    /\ LET model_fields == GetFields(model, ind_quad_ids)
           restored == SetFieldsOn(model, ind_quad_ids, default_fields)
       IN model' = SetFieldsOn(restored, ind_quad_ids, model_fields)
    /\ LET r == ScanPhases(mux0, muy0, phase_coverage, n_steps, scan_type)
       IN call' = [op |-> "get_phases_for_scan", opt |-> "model",
                   args |-> <<phase_coverage, n_steps, scan_type>>,
                   raised |-> r.raised, log |-> <<>>,
                   ret |-> [centre |-> phases(trajectory, ref_ws_id),
                            mu0 |-> <<mux0, muy0>>,
                            phases |-> r.val]]
    /\ UNCHANGED <<live, book, frame, optics, sync, panel>>

(***************************************************************************)
(* The solves.  minimize() evaluates one or more trials; each evaluation   *)
(* is MyScorer.score: set_fields(quad_ids, trial, 'model') and track().  It *)
(* returns the values of the best trial, which is the last one evaluated   *)
(* only if the search happens to end on it.  A run of minimize is given by *)
(* its last trial and its best trial.                                      *)
(***************************************************************************)
Trials(n) == [1..n -> ModelVals]

MinimizeRun(varied, last, best) ==
    /\ Len(last) = Len(varied)
    /\ Len(best) = Len(varied)

\* The model fields after the last evaluation of score
AfterTrials(m, qids, last) == SetFieldsOn(m, qids, last)

SetRefWsPhases(last, best) ==
    /\ pc = "idle"
    /\ LET lo == IndexIn(ind_quad_ids, "QH18")
           hi == IndexIn(ind_quad_ids, "QV19")
           varied == SubSeq(ind_quad_ids, lo, hi)
           restored == SetFieldsOn(model, ind_quad_ids, default_fields)
       IN /\ MinimizeRun(varied, last, best)
          /\ model' = AfterTrials(restored, varied, last)
    /\ trajectory' = Track(model', kinetic_energy)
    /\ call' = [Done("set_ref_ws_phases", "model") EXCEPT !.ret = best]
    /\ UNCHANGED <<live, book, frame, default_fields, default_betas_at_target,
                   kinetic_energy, captured, sync, panel>>

ConstrainSizeOnTarget(last, best) ==
    /\ pc = "idle"
    /\ LET varied == LastN(ind_quad_ids, 5)
           lastm == AfterTrials(model, varied, last)
       IN /\ MinimizeRun(varied, last, best)
          /\ model' = SetFieldsOn(lastm, varied, best)
          /\ trajectory' = Track(lastm, kinetic_energy)
    /\ call' = Done("constrain_size_on_target", "model")
    /\ UNCHANGED <<live, book, frame, default_fields, default_betas_at_target,
                   kinetic_energy, captured, sync, panel>>

SetTargetPhases(last, best) ==
    /\ pc = "idle"
    /\ LET lo == IndexIn(ind_quad_ids, "QH18")
           hi == Len(ind_quad_ids)
           varied == SubSeq(ind_quad_ids, lo, hi)
       IN /\ MinimizeRun(varied, last, best)
          /\ model' = AfterTrials(model, varied, last)
    /\ trajectory' = Track(model', kinetic_energy)
    /\ call' = Done("set_target_phases", "model")
    /\ UNCHANGED <<live, book, frame, default_fields, default_betas_at_target,
                   kinetic_energy, captured, sync, panel>>

(***************************************************************************)
(* The beta penalty of set_ref_ws_phases.  The tracked trajectory is given  *)
(* by the beta functions (beta_x, beta_y) of its states, one state for each *)
(* of the nodes of TwissNodes, in lattice order.                            *)
(***************************************************************************)
TwissNodes == <<"RTBT_Mag:QH02", "RTBT_Diag:WS20", "RTBT_Diag:WS24", "RTBT:Tgt">>

BetaVals == {30, 50}

\* The trajectories: the beta functions of every state
TrackedTwiss == [1..Len(TwissNodes) -> BetaVals \X BetaVals]

\* The wire-scanners the reference wire-scanner is selected from
WsIds == {"RTBT_Diag:WS20", "RTBT_Diag:WS24"}

\* utils.clip(value, lo): one-sided clamp
clip(value, lo) == IF value < lo THEN lo ELSE value

RECURSIVE MaxOf(_)
MaxOf(S) ==
    LET x == CHOOSE y \in S : TRUE
    IN IF S = {x} THEN x
       ELSE LET m == MaxOf(S \ {x}) IN IF x > m THEN x ELSE m

\* max_betas(start, stop): the maxima over tracked_twiss()[lo:hi], where lo is
\* the first state of start and hi the last state of stop, which the slice
\* leaves out.
max_betas(twiss, start, stop_id) ==
    LET lo == IndexIn(TwissNodes, start)
        hi == IndexIn(TwissNodes, stop_id)
    IN <<MaxOf({twiss[i][1] : i \in lo..(hi - 1)}), MaxOf({twiss[i][2] : i \in lo..(hi - 1)})>>

penalty_function_sumsq(twiss, beta_lims) ==
    LET mb == max_betas(twiss, "RTBT_Mag:QH02", "RTBT_Diag:WS24")
    IN clip(mb[1] - beta_lims[1], 0) ^ 2 + clip(mb[2] - beta_lims[2], 0) ^ 2

\* MyScorer.penalty_function of set_ref_ws_phases: max_betas() is called with
\* its default start and stop.
penalty_function(twiss, beta_lims) ==
    LET mb == max_betas(twiss, "RTBT_Mag:QH02", "RTBT_Diag:WS24")
        penalty == clip(mb[1] - beta_lims[1], 0) + clip(mb[2] - beta_lims[2], 0)
    IN penalty ^ 2

\* One evaluation of the penalty by the scorer of set_ref_ws_phases, on a
\* controller whose ref_ws_id is ws and whose trajectory has the betas twiss.
PenaltyFunction(ws, twiss, beta_lims) ==
    /\ pc = "idle"
    /\ call' = [op |-> "penalty_function", opt |-> "model",
                args |-> <<ws, twiss, beta_lims>>,
                raised |-> "none", log |-> <<>>,
                ret |-> penalty_function(twiss, beta_lims)]
    /\ UNCHANGED <<machine, frame, optics, sync, panel>>

(***************************************************************************)
(* reconstruct (lib/analysis.py).  The covariance matrices considered are   *)
(* diagonal with whole entries: the eigenvalues of such a matrix are its    *)
(* diagonal entries and its determinant is their product.  Emittances are   *)
(* square roots in the program; the operators below carry their squares,    *)
(* and a square root of a negative number raises ValueError as math.sqrt    *)
(* does.  Products of emittances, which are not negative, are compared by   *)
(* their squares.                                                           *)
(***************************************************************************)
SigmaVals == {-1, 0, 1, 2}

\* to_mat of a moment vector whose cross moments sig_12, sig_34, sig_13, ... are 0
to_mat(diag) == [i \in 1..4 |-> [j \in 1..4 |-> IF i = j THEN diag[i] ELSE 0]]

Sigmas == {to_mat(diag) : diag \in [1..4 -> SigmaVals]}

\* Sigma.eig().getRealEigenvalues() of a diagonal matrix
Eigenvalues(Sigma) == [i \in 1..4 |-> Sigma[i][i]]

\* Sigma.det() of a diagonal matrix
Det(Sigma) == Sigma[1][1] * Sigma[2][2] * Sigma[3][3] * Sigma[4][4]

\* Matrix.times and Matrix.trace
Times(A, B) ==
    [i \in 1..4 |-> [j \in 1..4 |->
        A[i][1] * B[1][j] + A[i][2] * B[2][j] + A[i][3] * B[3][j] + A[i][4] * B[4][j]]]

Trace(A) == A[1][1] + A[2][2] + A[3][3] + A[4][4]

\* sqrt of a whole square
Sqrt(x) == CHOOSE r \in 0..(x + 1) : r * r = x

\* apparent_emittances: (eps_x^2, eps_y^2)
apparent_emittances(Sigma) ==
    LET ex2 == Sigma[1][1] * Sigma[2][2] - Sigma[1][2] * Sigma[1][2]
        ey2 == Sigma[3][3] * Sigma[4][4] - Sigma[3][4] * Sigma[3][4]
    IN IF ex2 < 0 \/ ey2 < 0 THEN Raise("ValueError") ELSE Return(<<ex2, ey2>>)

\* intrinsic_emittances: (eps_1^2, eps_2^2)
intrinsic_emittances(Sigma) ==
    LET U == <<(<<0, 1, 0, 0>>), (<<-1, 0, 0, 0>>), (<<0, 0, 0, 1>>), (<<0, 0, -1, 0>>)>>
        SU == Times(Sigma, U)
        SU2 == Times(SU, SU)
        trSU2 == Trace(SU2)
        detS == Det(Sigma)
        inner == trSU2 * trSU2 - 16 * detS
    IN IF inner < 0 THEN Raise("ValueError")
       ELSE LET e1 == -trSU2 + Sqrt(inner)
                e2 == -trSU2 - Sqrt(inner)
            IN IF e1 < 0 \/ e2 < 0 THEN Raise("ValueError")
               ELSE Return(<<e1 \div 4, e2 \div 4>>)

\* emittances: apparent first, then intrinsic
emittances(Sigma) ==
    LET app == apparent_emittances(Sigma)
        int == intrinsic_emittances(Sigma)
    IN IF app.raised # "none" THEN app
       ELSE IF int.raised # "none" THEN int
       ELSE Return(app.val \o int.val)

\* The module's is_positive_definite and is_valid_cov
is_positive_definite(Sigma) == \A i \in 1..4 : Eigenvalues(Sigma)[i] >= 0

is_valid_cov(Sigma) ==
    IF ~is_positive_definite(Sigma) THEN FALSE
    ELSE IF Det(Sigma) < 0 THEN FALSE
    ELSE LET e == emittances(Sigma).val
         IN ~(e[1] * e[2] < e[3] * e[4])

\* The is_positive_definite defined inside reconstruct
reconstruct_is_positive_definite(Sigma) == \E i \in 1..4 : Eigenvalues(Sigma)[i] < 0

\* is_physical_cov of reconstruct
is_physical_cov(Sigma) ==
    IF reconstruct_is_positive_definite(Sigma) /\ Det(Sigma) >= 0
    THEN LET e == emittances(Sigma)
         IN IF e.raised # "none" THEN e
            ELSE Return(e.val[1] * e.val[2] >= e.val[3] * e.val[4])
    ELSE Return(FALSE)

\* twiss2D: beta = Sigma.get(0, 0) / eps_x, ...; the values stay with Sigma
twiss2D(Sigma) ==
    LET app == apparent_emittances(Sigma)
    IN IF app.raised # "none" THEN app
       ELSE IF app.val[1] = 0 \/ app.val[2] = 0 THEN Raise("ZeroDivisionError")
       ELSE Return([of |-> Sigma])

Rat(n) == <<n, 1>>

Neg(r) == <<-r[1], r[2]>>

DependentD_and(a, b, c) ==
    IF a = 0
    THEN IF b = 0 /\ c = 0 THEN Return(Rat(0)) ELSE Raise("ValueError")
    ELSE Return(<<b * c, a>>)

\* d of get_cov, the quotient b * c / a kept as numerator and denominator
DependentD(a, b, c) ==
    IF a = 0
    THEN IF b = 0 \/ c = 0 THEN Return(Rat(0)) ELSE Raise("ValueError")
    ELSE Return(<<b * c, a>>)

\* get_cov: V is built from the Twiss parameters of Sigma (sqrt(beta) and
\* 1 / sqrt(beta)), then d and C; the product VC E VC^T stays with its factors.
get_cov(Sigma, a, b, c) ==
    LET d == DependentD(a, b, c)
    IN IF Sigma[1][1] < 0 \/ Sigma[3][3] < 0 THEN Raise("ValueError")
       ELSE IF Sigma[1][1] = 0 \/ Sigma[3][3] = 0 THEN Raise("ZeroDivisionError")
       ELSE IF d.raised # "none" THEN d
       ELSE Return([V |-> [of |-> Sigma],
                    d |-> d.val,
                    C |-> <<(<<Rat(1), Rat(0), Rat(a), Rat(b)>>),
                            (<<Rat(0), Rat(1), Rat(c), d.val>>),
                            (<<Neg(d.val), Rat(b), Rat(1), Rat(0)>>),
                            (<<Rat(c), Rat(-a), Rat(0), Rat(1)>>)>>])

\* One evaluation of get_cov, as kept in the log of the call
Evaluation(abc, r) == [args |-> abc, raised |-> r.raised, cov |-> r.val]

\* reconstruct(transfer_mats, moments, constr) where Sigma is the solution of
\* the linear least-squares problem, trial the values of a trial scored by the
\* solver and best the values minimize returns.
Reconstruct(Sigma, constr, trial, best) ==
    /\ pc = "idle"
    /\ LET phys == is_physical_cov(Sigma)
           tw == twiss2D(Sigma)
           scored == get_cov(Sigma, trial[1], trial[2], trial[3])
           final == get_cov(Sigma, best[1], best[2], best[3])
           Ended(raised, log, path, S) ==
               [op |-> "reconstruct", opt |-> "none", args |-> <<Sigma, constr>>,
                raised |-> raised, log |-> log, ret |-> [path |-> path, Sigma |-> S]]
       IN call' =
            IF ~constr THEN Ended("none", <<>>, "linear", Sigma)
            ELSE IF phys.raised # "none" THEN Ended(phys.raised, <<>>, "linear", <<>>)
            ELSE IF phys.val THEN Ended("none", <<>>, "linear", Sigma)
            ELSE IF tw.raised # "none" THEN Ended(tw.raised, <<>>, "solver", <<>>)
            ELSE IF scored.raised # "none"
                 THEN Ended(scored.raised, <<Evaluation(trial, scored)>>, "solver", <<>>)
            ELSE Ended(final.raised,
                       <<Evaluation(trial, scored), Evaluation(best, final)>>,
                       "solver", final.val)
    /\ UNCHANGED <<machine, frame, optics, sync, panel>>

(***************************************************************************)
(* The 'Calculate model optics' button of the phase controller panel        *)
(* (lib/phase_controller_panel.py, CalculateModelOpticsButtonListener).     *)
(* The handler runs on the event thread: nothing else runs between its      *)
(* steps.  calc holds its position, the scan list it iterates, and, for     *)
(* the properties, the model fields as each step's solve left them and      *)
(* whether the list held entries when the handler started.                  *)
(***************************************************************************)
MaxScan == 3

NoCalc == [pc |-> "idle", phases |-> <<>>, index |-> 1, solved |-> <<>>, discarded |-> FALSE]

\* restore_default_optics('model') on the model fields m
Restored(m) == SetFieldsOn(m, ind_quad_ids, default_fields)

\* The model fields and the trajectory after set_ref_ws_phases
RefWsSolved(m, last) ==
    LET varied == SubSeq(ind_quad_ids, IndexIn(ind_quad_ids, "QH18"),
                         IndexIn(ind_quad_ids, "QV19"))
        m1 == AfterTrials(Restored(m), varied, last)
    IN [model |-> m1, trajectory |-> Track(m1, kinetic_energy)]

\* The model fields and the trajectory after constrain_size_on_target
TargetConstrained(m, last, best) ==
    LET varied == LastN(ind_quad_ids, 5)
        lastm == AfterTrials(m, varied, last)
    IN [model |-> SetFieldsOn(lastm, varied, best), trajectory |-> Track(lastm, kinetic_energy)]

Finished(raised) ==
    [op |-> "calculate_model_optics", opt |-> "model", args |-> <<>>,
     raised |-> raised, log |-> <<>>, ret |-> <<>>]

ClearedList_kept(l) == l

\* self.panel.model_fields_list = []
ClearedList(l) == <<>>

\* Up to the for loop over the scan steps: clear the list, restore the default
\* optics and track, build the scan list.  An error raised by
\* get_phases_for_scan ends the handler.
CalcStart(mux0, muy0, phase_coverage, n_steps, scan_type) ==
    /\ pc = "idle"
    /\ calc.pc = "idle"
    /\ model_fields_list' = ClearedList(model_fields_list)
    /\ LET m1 == Restored(model)
           r == ScanPhases(mux0, muy0, phase_coverage, n_steps, scan_type)
       IN /\ model' = SetFieldsOn(Restored(m1), ind_quad_ids, GetFields(m1, ind_quad_ids))
          /\ trajectory' = Track(m1, kinetic_energy)
          /\ IF r.raised # "none"
             THEN /\ calc' = NoCalc
                  /\ call' = Finished(r.raised)
             ELSE /\ calc' = [pc |-> "steps", phases |-> r.val, index |-> 1, solved |-> <<>>,
                              discarded |-> model_fields_list # <<>>]
                  /\ UNCHANGED call
    /\ UNCHANGED <<live, book, frame, default_fields, default_betas_at_target,
                   kinetic_energy, captured, sync, scan_index_items>>

\* [get_field(quad_id, 'model') for quad_id in ind_quad_ids]
RecordedFields(m) == GetFields(m, ind_quad_ids)

\* One pass of the for loop: set_ref_ws_phases, constrain_size_on_target if the
\* betas at the target moved by more than 5 %, then append the model fields.
CalcStep(last, constrain, clast, cbest) ==
    /\ calc.pc = "steps"
    /\ calc.index <= Len(calc.phases)
    /\ LET s1 == RefWsSolved(model, last)
           s2 == TargetConstrained(s1.model, clast, cbest)
           after == IF constrain THEN s2 ELSE s1
       IN /\ constrain => beta_funcs(s1.trajectory, "RTBT:Tgt") # default_betas_at_target
          /\ model' = after.model
          /\ trajectory' = after.trajectory
          /\ model_fields_list' = Append(model_fields_list, RecordedFields(after.model))
          /\ calc' = [calc EXCEPT !.index = calc.index + 1,
                                  !.solved = Append(calc.solved, after.model)]
    /\ UNCHANGED <<live, book, frame, default_fields, default_betas_at_target,
                   kinetic_energy, captured, sync, call, scan_index_items>>

FinalTrack_none(m) == trajectory

\* self.phase_controller.track() at the end of the handler
FinalTrack(m) == Track(m, kinetic_energy)

\* After the loop: restore_default_optics('model') and track()
CalcFinish ==
    /\ calc.pc = "steps"
    /\ calc.index > Len(calc.phases)
    /\ model' = Restored(model)
    /\ trajectory' = FinalTrack(model')
    /\ calc' = [calc EXCEPT !.pc = "idle"]
    /\ call' = Finished("none")
    /\ UNCHANGED <<live, book, frame, default_fields, default_betas_at_target,
                   kinetic_energy, captured, sync, model_fields_list, scan_index_items>>

(***************************************************************************)
(* The machine-update handlers of the panel: the step-count field, 'Set     *)
(* from scan' and 'Set manually'.  The text of a field is what the user has *)
(* typed when the handler reads it.  A handler that ramps the live machine  *)
(* runs on through the steps of set_fields.                                 *)
(***************************************************************************)
\* n_steps_text_field.setValue(10): the step count shown on a new panel, here
\* the largest one considered
InitialNSteps == MaxScan

\* float(text): the number written, as <<numerator, denominator>>
Float(text) ==
    IF text = "0.01" THEN Return(<<1, 100>>)
    ELSE IF text = "0.5" THEN Return(<<1, 2>>)
    ELSE IF text = "1.0" THEN Return(<<1, 1>>)
    ELSE Raise("ValueError")

\* panel.get_field_set_kws()
get_field_set_kws(sleep_text, frac_text) ==
    LET st == Float(sleep_text)
        mfc == Float(frac_text)
    IN IF st.raised # "none" THEN st
       ELSE IF mfc.raised # "none" THEN mfc
       ELSE Return([sleep_time |-> st.val, max_frac_change |-> mfc.val])

\* Entry of set_fields(qids, flds, 'live', max_frac_change, max_iters, sleep_time)
RampStart(qids, flds, frac, max_iters, sleep_time) ==
    /\ pc' = "loop"
    /\ arg' = [quad_ids |-> qids, fields |-> flds,
               max_frac_change |-> frac, max_iters |-> max_iters,
               sleep_time |-> sleep_time]
    /\ stop' = FALSE
    /\ iters' = 0
    /\ idx' = 1
    /\ writes' = <<>>
    /\ sleeps' = 0
    /\ entry' = [book |-> [q \in Quads |-> get_field(q, "book")],
                 live |-> [q \in Quads |-> get_field(q, "live")]]

Handled(op, args, raised) ==
    [op |-> op, opt |-> "live", args |-> args, raised |-> raised, log |-> <<>>, ret |-> <<>>]

\* NStepsTextFieldListener: the dropdown is rebuilt as 'default' and range(n_steps)
NStepsTextFieldListener(n_steps) ==
    /\ pc = "idle"
    /\ calc.pc = "idle"
    /\ scan_index_items' = IF n_steps < 0 THEN 0 ELSE n_steps
    /\ call' = Handled("n_steps", <<n_steps>>, "none")
    /\ UNCHANGED <<machine, frame, optics, sync, model_fields_list, calc>>

\* The items of scan_index_dropdown: 'default', then the numbers of range(n_steps)
DefaultItem == [default |-> TRUE, index |-> 0]

ScanIndexItems ==
    {DefaultItem} \cup {[default |-> FALSE, index |-> i] : i \in 0..(scan_index_items - 1)}

\* SetLiveOpticsButton1Listener ('Set from scan') with scan_index selected
SetLiveOpticsButton1(scan_index, sleep_text, frac_text) ==
    /\ pc = "idle"
    /\ calc.pc = "idle"
    /\ scan_index \in ScanIndexItems
    /\ LET kws == get_field_set_kws(sleep_text, frac_text)
           args == <<scan_index, kws.val>>
       IN IF kws.raised # "none"
          THEN /\ call' = Handled("set_live_optics_1", args, kws.raised)
               /\ UNCHANGED <<model, frame>>
          ELSE IF scan_index.default
          THEN /\ model' = Restored(model)
               /\ RampStart(ind_quad_ids, default_fields, DefaultMaxFracChange,
                            DefaultMaxIters, DefaultSleepTime)
               /\ call' = Handled("set_live_optics_1", args, "none")
          ELSE IF scan_index.index >= Len(model_fields_list)
          THEN /\ call' = Handled("set_live_optics_1", args, "IndexError")
               /\ UNCHANGED <<model, frame>>
          ELSE LET fields == model_fields_list[scan_index.index + 1]
               IN /\ model' = SetFieldsOn(model, ind_quad_ids, fields)
                  /\ RampStart(ind_quad_ids, fields, kws.val.max_frac_change,
                               DefaultMaxIters, kws.val.sleep_time)
                  /\ call' = Handled("set_live_optics_1", args, "none")
    /\ UNCHANGED <<live, book, optics, sync, panel>>

SyncTargets_default(m) == default_fields

\* model_fields = self.get_fields(self.ind_quad_ids, "model") of sync_live_with_model
SyncTargets(m) == GetFields(m, ind_quad_ids)

\* SetLiveOpticsButton2Listener ('Set manually'): the solve for the shifted
\* phases, constrain_size_on_target if the betas at the target moved by more
\* than 5 %, then sync_live_with_model(**field_set_kws)
SetLiveOpticsButton2(last, constrain, clast, cbest, sleep_text, frac_text) ==
    /\ pc = "idle"
    /\ calc.pc = "idle"
    /\ LET s1 == RefWsSolved(Restored(model), last)
           s2 == TargetConstrained(s1.model, clast, cbest)
           after == IF constrain THEN s2 ELSE s1
           kws == get_field_set_kws(sleep_text, frac_text)
       IN /\ constrain => beta_funcs(s1.trajectory, "RTBT:Tgt") # default_betas_at_target
          /\ model' = after.model
          /\ trajectory' = after.trajectory
          /\ IF kws.raised # "none"
             THEN /\ call' = Handled("set_live_optics_2", <<kws.val>>, kws.raised)
                  /\ UNCHANGED frame
             ELSE /\ RampStart(ind_quad_ids, SyncTargets(after.model),
                               kws.val.max_frac_change, DefaultMaxIters, kws.val.sleep_time)
                  /\ call' = Handled("set_live_optics_2", <<kws.val>>, "none")
    /\ UNCHANGED <<live, book, default_fields, default_betas_at_target, kinetic_energy,
                   captured, sync, panel>>

(***************************************************************************)
(* The basic GUI (emittance_measurement_4D.py): closing the window.  pc is  *)
(* "exited" once sys.exit has ended the process.                            *)
(***************************************************************************)
\* field_set_kws of GUI.launch, read from the text fields as they are built
LaunchKws == get_field_set_kws("0.5", "0.01").val

\* phase_controller.restore_default_optics('live', **kws)
RestoreDefaultOpticsLive(kws) ==
    RampStart(ind_quad_ids, default_fields, kws.max_frac_change, DefaultMaxIters, kws.sleep_time)

ClosesLive_never(is_live) == FALSE

\* if self.live
ClosesLive(is_live) == is_live

\* WindowCloser.windowClosing of a GUI constructed with live = is_live
WindowClosing(is_live) ==
    /\ pc = "idle"
    /\ IF ClosesLive(is_live)
       THEN /\ RestoreDefaultOpticsLive(LaunchKws)
            /\ call' = Handled("window_closing", <<is_live>>, "none")
       ELSE /\ pc' = "exited"
            /\ call' = Handled("window_closing", <<is_live>>, "SystemExit")
            /\ UNCHANGED <<arg, stop, iters, idx, writes, sleeps, entry>>
    /\ UNCHANGED <<machine, optics, sync, panel>>

\* sys.exit(1) after restore_default_optics has returned
SysExit ==
    /\ pc = "done"
    /\ call.op = "window_closing"
    /\ pc' = "exited"
    /\ call' = [call EXCEPT !.raised = "SystemExit"]
    /\ UNCHANGED <<machine, arg, stop, iters, idx, writes, sleeps, entry, optics, sync, panel>>

(***************************************************************************)
(* get_scan_info (lib/analysis.py).  A measurement is given by the          *)
(* PVLoggerID and the wire-scanner ids read from its file; the generator    *)
(* by the snapshot its scenario was last synchronized to.  A transfer       *)
(* matrix is a function of the scenario and of the two nodes.  Each list    *)
(* element of the two dictionaries is kept with the position in             *)
(* `measurements` of the measurement it was taken from.                     *)
(***************************************************************************)
MaxMeas == 3

PvLoggerIds == {1, 2}

\* node_ids = sorted(list(lines))
NodeLists ==
    {<<>>, <<"RTBT_Diag:WS20">>, <<"RTBT_Diag:WS24">>, <<"RTBT_Diag:WS20", "RTBT_Diag:WS24">>}

Measurements == [pvloggerid : PvLoggerIds, node_ids : NodeLists]

MeasurementLists == UNION {[1..n -> Measurements] : n \in 0..MaxMeas}

TmatSync_none(gen, pvloggerid) == gen

\* TransferMatrixGenerator.sync(pvloggerid)
TmatSync(gen, pvloggerid) == [gen EXCEPT !.synced = pvloggerid]

\* TransferMatrixGenerator.generate(start_node_id, stop_node_id)
generate(gen, start_node_id, stop_node_id) ==
    [start |-> start_node_id, stop |-> stop_node_id, scenario |-> gen.synced]

\* Measurement.get_moments(): the moments at each node of the measurement
get_moments(measurement) ==
    [i \in 1..Len(measurement.node_ids) |->
        [pvloggerid |-> measurement.pvloggerid, node |-> measurement.node_ids[i]]]

\* Measurement.get_transfer_mats(start_node_id, tmat_generator): the generator
\* afterwards and the matrix to each node of the measurement
get_transfer_mats(measurement, start_node_id, gen) ==
    LET resynced == TmatSync(gen, measurement.pvloggerid)
    IN [gen |-> resynced,
        transfer_mats |-> [i \in 1..Len(measurement.node_ids) |->
                              generate(resynced, start_node_id, measurement.node_ids[i])]]

\* if node_id not in d: d[node_id] = []; d[node_id].append(v)
AppendAt(dict, node_id, v) ==
    IF node_id \in DOMAIN dict
    THEN [dict EXCEPT ![node_id] = Append(@, v)]
    ELSE dict @@ (node_id :> <<v>>)

\* for node_id in measurement.node_ids: append to both dictionaries
RECURSIVE AppendNodes(_, _, _, _, _, _)
AppendNodes(k, node_ids, moments, tmats, i, dicts) ==
    IF i > Len(node_ids) THEN dicts
    ELSE AppendNodes(k, node_ids, moments, tmats, i + 1,
            [moments_dict |-> AppendAt(dicts.moments_dict, node_ids[i],
                                       [meas |-> k, val |-> moments[i]]),
             tmats_dict |-> AppendAt(dicts.tmats_dict, node_ids[i],
                                     [meas |-> k, val |-> tmats[i]])])

\* for measurement in measurements: ...; the sync of measurement number `fail`
\* raises (none does if fail = 0)
RECURSIVE get_scan_info(_, _, _, _, _, _)
get_scan_info(measurements, start_node_id, gen, fail, k, dicts) ==
    IF k > Len(measurements) THEN Return([gen |-> gen, dicts |-> dicts])
    ELSE IF k = fail THEN Raise("SynchronizationException")
    ELSE LET measurement == measurements[k]
             moments == get_moments(measurement)
             r == get_transfer_mats(measurement, start_node_id, gen)
         IN get_scan_info(measurements, start_node_id, r.gen, fail, k + 1,
                AppendNodes(k, measurement.node_ids, moments, r.transfer_mats, 1, dicts))

NoDicts == [moments_dict |-> <<>>, tmats_dict |-> <<>>]

\* get_scan_info(measurements, tmat_generator, start_node_id) with a generator
\* last synchronized to the snapshot synced_before
GetScanInfo(measurements, synced_before, fail) ==
    /\ pc = "idle"
    /\ LET r == get_scan_info(measurements, "RTBT_Mag:QH02", [synced |-> synced_before],
                              fail, 1, NoDicts)
       IN call' = [op |-> "get_scan_info", opt |-> "none",
                   args |-> <<measurements, synced_before>>,
                   raised |-> r.raised, log |-> <<>>, ret |-> r.val]
    /\ UNCHANGED <<machine, frame, optics, sync, panel>>

(***************************************************************************)
(* safe_sync(scenario, sync_mode) on the controller's scenario             *)
(***************************************************************************)
DesignField(q) == IF Polarity(q) < 0 THEN -100 * Scale ELSE 100 * Scale

\* The fields a resync in the given mode reads for each node
SyncSource(mode, lv) ==
    [q \in Quads |-> IF mode = "live" THEN lv[MainSupply(q)] ELSE DesignField(q)]

\* A resync that succeeds sets every element; one that raises
\* SynchronizationException has set the elements of some of the nodes.
Resynced(m, src, S) == [q \in Quads |-> IF q \in S THEN src[q] ELSE m[q]]

Handler_reraise(liveOk) == IF liveOk THEN "live" ELSE "raise"

\* try: ... resync() except SynchronizationException: sync_mode = "design"
Handler(liveOk) == IF liveOk THEN "live" ELSE "design"

SafeSync(mode, liveOk, designOk, S1, S2) ==
    /\ pc = "idle"
    /\ liveOk => S1 = Quads
    /\ designOk => S2 = Quads
    /\ ~liveOk => S1 # Quads
    /\ ~designOk => S2 # Quads
    /\ IF mode \notin {"live", "design"}
       THEN /\ call' = [op |-> "safe_sync", opt |-> mode, args |-> <<>>,
                         raised |-> "ValueError", log |-> <<>>, ret |-> <<>>]
            /\ UNCHANGED <<model, sync, panel>>
       ELSE LET tryLive == mode = "live"
                m1 == IF tryLive THEN Resynced(model, SyncSource("live", live), S1) ELSE model
                log1 == IF tryLive THEN <<[mode |-> "live", ok |-> liveOk]>> ELSE <<>>
                mode1 == IF tryLive THEN Handler(liveOk) ELSE mode
                synced1 == IF tryLive /\ liveOk THEN "live" ELSE synced
            IN IF mode1 = "raise"
               THEN /\ model' = m1
                    /\ scenario_mode' = "live"
                    /\ UNCHANGED <<sync_mode, synced>>
                    /\ call' = [op |-> "safe_sync", opt |-> mode, args |-> <<>>,
                                raised |-> "SynchronizationException", log |-> log1, ret |-> <<>>]
               ELSE IF mode1 = "design"
               THEN /\ model' = Resynced(m1, SyncSource("design", live), S2)
                    /\ scenario_mode' = "design"
                    /\ synced' = IF designOk THEN "design" ELSE synced1
                    /\ sync_mode' = IF designOk THEN "design" ELSE sync_mode
                    /\ call' = [op |-> "safe_sync", opt |-> mode, args |-> <<>>,
                                raised |-> IF designOk THEN "none"
                                           ELSE "SynchronizationException",
                                log |-> log1 \o <<[mode |-> "design", ok |-> designOk]>>,
                                ret |-> <<>>]
               ELSE /\ model' = m1
                    /\ scenario_mode' = "live"
                    /\ synced' = synced1
                    /\ sync_mode' = "live"
                    /\ call' = [op |-> "safe_sync", opt |-> mode, args |-> <<>>,
                                raised |-> "none", log |-> log1, ret |-> <<>>]
    /\ UNCHANGED <<live, book, frame, optics, panel>>

(***************************************************************************)
(* Specifications                                                          *)
(***************************************************************************)
LiveAtStart(p) == IF p = "PS_QV19" THEN -100 * Scale ELSE 110 * Scale

IndQuadOf(p) == CHOOSE q \in IndQuads : MainSupply(q) = p

\* The state after PhaseController(sync_mode=sm, ...) has been constructed.
Constructed(sm) ==
    /\ live = [p \in Supplies |-> LiveAtStart(p)]
    /\ book = [p \in Supplies |-> toCAFromField(IndQuadOf(p), LiveAtStart(p))]
    /\ model = SyncSource(sm, live)
    /\ pc = "idle"
    /\ arg = NoArg
    /\ stop = FALSE
    /\ iters = 0
    /\ idx = 1
    /\ writes = <<>>
    /\ sleeps = 0
    /\ entry = NoEntry
    /\ kinetic_energy = 1
    /\ trajectory = Track(model, kinetic_energy)
    /\ default_fields = GetFields(model, ind_quad_ids)
    /\ default_betas_at_target = beta_funcs(trajectory, "RTBT:Tgt")
    /\ captured = [i \in 1..Len(ind_quad_ids) |-> model[ind_quad_ids[i]]]
    /\ sync_mode = sm
    /\ scenario_mode = sm
    /\ synced = sm
    /\ call = NoCall
    /\ model_fields_list = <<>>
    /\ calc = NoCalc
    /\ scan_index_items = InitialNSteps

Init == Constructed("live")

NextRamp ==
    \/ \E qids \in Slices(ind_quad_ids), frac \in Fracs, max_iters \in 0..MaxIters :
         \E flds \in TargetsFor(qids) : SetFieldsLive(qids, flds, frac, max_iters)
    \/ LoopTest
    \/ StepQuad
    \/ Sleep
    \/ FinalQuad
    \/ SetFieldsReturn
    \/ Idle
    \/ \E q \in Quads, opt \in {"live", "book", "bogus"} :
         \E f \in FieldValsOf(q) : SetField(q, f, opt)
    \/ \E q \in Quads, opt \in Opts : GetField(q, opt)

SpecRamp == Init /\ [][NextRamp]_vars

\* The steps of a running set_fields call.  The program is single-threaded: a
\* call that has started runs on, so a step that stays enabled is taken.
RampStep == LoopTest \/ StepQuad \/ Sleep \/ FinalQuad \/ SetFieldsReturn

FairRamp == SpecRamp /\ WF_vars(RampStep)

NextOptics ==
    \/ \E q \in Quads, f \in ModelVals, opt \in {"model", "bogus"} : SetField(q, f, opt)
    \/ \E q \in Quads, opt \in Opts : GetField(q, opt)
    \/ \E qids \in Slices(ind_quad_ids) :
         \E flds \in [1..Len(qids) -> ModelVals] : SetFieldsModel(qids, flds)
    \/ SetCurrentOpticsAsDefault
    \/ RestoreDefaultOpticsModel
    \/ \E ke \in KineticEnergies : SetKineticEnergy(ke)
    \/ GetPhasesForScan(2 * Deg15, 11 * Deg15, 90, MaxSteps, 1)
    \/ \E last \in Trials(Len(ind_quad_ids)), best \in Trials(Len(ind_quad_ids)) :
         SetRefWsPhases(last, best)
    \/ \E last \in Trials(Len(ind_quad_ids)), best \in Trials(Len(ind_quad_ids)) :
         ConstrainSizeOnTarget(last, best)
    \/ \E last \in Trials(Len(ind_quad_ids)), best \in Trials(Len(ind_quad_ids)) :
         SetTargetPhases(last, best)

SpecOptics == Init /\ [][NextOptics]_vars

\* set_fields and set_field with every kind of opt but 'live'
NextFields ==
    \/ \E qids \in Slices(ind_quad_ids), opt \in Opts \ {"live"} :
         \E flds \in [1..Len(qids) -> ModelVals] : SetFields(qids, flds, opt)
    \/ \E q \in Quads, f \in ModelVals, opt \in {"model", "bogus"} : SetField(q, f, opt)

SpecFields == Init /\ [][NextFields]_vars

\* beta_lims of set_ref_ws_phases
BetaLims == {<<40, 40>>, <<60, 40>>}

\* The penalty depends on the trajectory and the limits only: each behaviour
\* evaluates it once.
NextPenalty ==
    /\ call = NoCall
    /\ \E ws \in WsIds, twiss \in TrackedTwiss, beta_lims \in BetaLims :
         PenaltyFunction(ws, twiss, beta_lims)

SpecPenalty == Init /\ [][NextPenalty]_vars

\* The basic GUI: the live and book values move with the machine until the
\* window is closed.
NextClose ==
    \/ \E q \in IndQuads, opt \in {"live", "book"} : \E f \in FieldValsOf(q) : SetField(q, f, opt)
    \/ \E is_live \in BOOLEAN : WindowClosing(is_live)
    \/ LoopTest
    \/ StepQuad
    \/ Sleep
    \/ FinalQuad
    \/ SetFieldsReturn
    \/ SysExit

SpecClose == Init /\ [][NextClose]_vars

\* get_scan_info keeps no state of its own: each behaviour makes one call.
NextInfo ==
    /\ call = NoCall
    /\ \E measurements \in MeasurementLists, synced_before \in PvLoggerIds :
         \E fail \in 0..Len(measurements) : GetScanInfo(measurements, synced_before, fail)

SpecInfo == Init /\ [][NextInfo]_vars

InitSync == \E sm \in {"live", "design"} : Constructed(sm)

NextSync ==
    \/ \E mode \in {"live", "design", "bogus"}, liveOk \in BOOLEAN, designOk \in BOOLEAN :
         \E S1 \in SUBSET Quads, S2 \in SUBSET Quads :
            SafeSync(mode, liveOk, designOk, S1, S2)
    \/ \E q \in IndQuads : \E f \in FieldValsOf(q) : SetField(q, f, "live")

SpecSync == InitSync /\ [][NextSync]_vars

\* Angles given to lin_phase_range, inside and outside [0, 2pi)
Angles == {-3 * Deg15, 0, 6 * Deg15, 13 * Deg15, 23 * Deg15, 30 * Deg15}

\* Phase advances (mod 2pi) at the reference wire-scanner
Centres == {0, 2 * Deg15, 11 * Deg15, 23 * Deg15}

\* phase_coverage, in degrees
Coverages == {30, 90, 180, 270, 360}

\* The lists returned depend on the arguments only: each behaviour makes one call
\* on the controller as constructed.
NextScan ==
    \/ /\ call = NoCall
       /\ \E mu_min \in Angles, mu_max \in Angles, n_steps \in 0..MaxSteps, endpoint \in BOOLEAN :
            LinPhaseRange(mu_min, mu_max, n_steps, endpoint)
    \/ /\ call = NoCall
       /\ \E mux0 \in Centres, muy0 \in Centres, phase_coverage \in Coverages,
             n_steps \in 0..MaxSteps, scan_type \in {1, 2, 3} :
            GetPhasesForScan(mux0, muy0, phase_coverage, n_steps, scan_type)

SpecScan == Init /\ [][NextScan]_vars

\* Values of (a, b, c) the solver scores or returns
TrialABC == {<<1, 1, -1>>, <<0, 1, 1>>, <<0, 0, 1>>}

BestABC == [1..3 -> {-1, 0, 2}]

\* reconstruct keeps no state: each behaviour makes one call.
NextRecon ==
    /\ call = NoCall
    /\ \E Sigma \in Sigmas, constr \in BOOLEAN, trial \in TrialABC, best \in BestABC :
         Reconstruct(Sigma, constr, trial, best)

SpecRecon == Init /\ [][NextRecon]_vars

\* Trial fields of the solves run by the panel
PanelTrials == {<<-100 * Scale, 110 * Scale>>, <<110 * Scale, 110 * Scale>>}

NextPanel ==
    \/ \E n_steps \in 0..MaxScan, scan_type \in {1, 2} :
         CalcStart(2 * Deg15, 11 * Deg15, 30, n_steps, scan_type)
    \/ \E last \in PanelTrials, constrain \in BOOLEAN, clast \in PanelTrials, cbest \in PanelTrials :
         CalcStep(last, constrain, clast, cbest)
    \/ CalcFinish
    \/ /\ calc.pc = "idle"
       /\ \E q \in Quads, f \in ModelVals : SetField(q, f, "model")
    \/ /\ calc.pc = "idle"
       /\ SetCurrentOpticsAsDefault

SpecPanel == Init /\ [][NextPanel]_vars

\* The texts of the sleep-time and max-frac-change fields
SleepTexts == {"0.5", "1.0"}

FracTexts == {"0.01", "0.5", ""}

RampSteps == LoopTest \/ StepQuad \/ Sleep \/ FinalQuad \/ SetFieldsReturn \/ Idle

\* The extended panel: step-count edits, 'Calculate model optics' for either
\* scan type, and 'Set from scan'
NextScanLive ==
    \/ \E n_steps \in 0..MaxScan : NStepsTextFieldListener(n_steps)
    \/ /\ pc = "idle"
       /\ \E n_steps \in 0..MaxScan, scan_type \in {1, 2} :
            CalcStart(2 * Deg15, 11 * Deg15, 30, n_steps, scan_type)
    \/ \E last \in PanelTrials : CalcStep(last, FALSE, last, last)
    \/ CalcFinish
    \/ \E scan_index \in ScanIndexItems, sleep_text \in SleepTexts, frac_text \in FracTexts :
         SetLiveOpticsButton1(scan_index, sleep_text, frac_text)
    \/ RampSteps

SpecScanLive == Init /\ [][NextScanLive]_vars

\* The extended panel: 'Set manually'
NextManual ==
    \/ \E last \in PanelTrials, constrain \in BOOLEAN, clast \in PanelTrials, cbest \in PanelTrials,
          sleep_text \in SleepTexts, frac_text \in FracTexts :
         SetLiveOpticsButton2(last, constrain, clast, cbest, sleep_text, frac_text)
    \/ RampSteps

SpecManual == Init /\ [][NextManual]_vars

TypeOK ==
    /\ pc \in {"idle", "loop", "body", "final", "done", "exited"}
    /\ iters \in 0..(MaxIters + 1)
    /\ \A p \in Supplies : live[p] \in Int /\ book[p] \in Int
    /\ call.op \notin {"set_fields", "set_live_optics_1", "set_live_optics_2", "window_closing"}
          => pc = "idle"

\* Every product max_frac_change * |book| formed in the loop is a whole number of quanta.
ExactArithmetic ==
    (pc = "body" /\ idx <= NPairs) =>
        (arg.max_frac_change[1] * Abs(get_field(arg.quad_ids[idx], "book")))
            % arg.max_frac_change[2] = 0

\* Every quotient of the phase arithmetic is a whole number of quanta.
ExactPhases ==
    /\ \A k \in 1..MaxSteps : Deg15 % k = 0
    /\ call.op = "lin_phase_range" =>
          /\ call.args[1] % Deg15 = 0
          /\ call.args[2] % Deg15 = 0
          /\ call.args[3] <= MaxSteps
    /\ call.op = "get_phases_for_scan" =>
          /\ call.ret.mu0[1] % Deg15 = 0
          /\ call.ret.mu0[2] % Deg15 = 0
          /\ (call.args[1] * Pi) % 180 = 0
          /\ radians(call.args[1]) % (2 * Deg15) = 0
          /\ call.args[2] <= MaxSteps

(***************************************************************************)
(* Properties                                                              *)
(***************************************************************************)
BookField(bk, q) == bk[MainSupply(q)] * Polarity(q)

LiveField(lv, q) == lv[MainSupply(q)]

InRamp == pc # "idle"

EndOfIteration == pc = "body" /\ idx > NPairs

RampEndsAtTarget ==
    InRamp =>
        /\ iters <= arg.max_iters
        /\ sleeps <= iters
        /\ idx <= NPairs + 1
        /\ call.raised = "none"
        /\ pc = "done" =>
              \A i \in 1..Len(arg.quad_ids) :
                 /\ BookField(book, arg.quad_ids[i]) = arg.fields[i]
                 /\ LiveField(live, arg.quad_ids[i]) = arg.fields[i]

C2_EveryWriteBounded ==
    \A k \in 1..Len(writes) :
        writes[k].chan = "book" =>
            Abs(writes[k].val - writes[k].prev)
                <= (arg.max_frac_change[1] * Abs(writes[k].prev)) \div arg.max_frac_change[2]

\* C3: in the stepping loop a quad whose needed change exceeds
\* max_frac_change * |book| moves by exactly that amount towards the target and
\* not past it, book and live alike; a quad within the bound is not written;
\* from book 100 towards 110 with max_frac_change 0.01 the first step ends at
\* most at 101.
C3_LoopStep ==
    [][(pc = "body" /\ idx <= NPairs /\ idx' = idx + 1) =>
        LET q == arg.quad_ids[idx]
            field == arg.fields[idx]
            b == BookField(book, q)
            nb == BookField(book', q)
            num == arg.max_frac_change[1]
            den == arg.max_frac_change[2]
        IN IF Abs(field - b) * den > num * Abs(b)
           THEN /\ Abs(nb - b) * den = num * Abs(b)
                /\ field > b => (b <= nb /\ nb < field)
                /\ field < b => (field < nb /\ nb <= b)
                /\ LiveField(live', q) = nb
                /\ \A p \in Supplies \ {MainSupply(q)} : book'[p] = book[p] /\ live'[p] = live[p]
                /\ (b = 100 * Scale /\ field = 110 * Scale /\ num = 1 /\ den = 100)
                      => nb <= 101 * Scale
           ELSE book' = book /\ live' = live /\ writes' = writes]_vars

C3_Witness ==
    /\ pc = "body"
    /\ iters = 1
    /\ arg.max_frac_change = <<1, 100>>
    /\ \E i \in 1..(idx - 1) :
          /\ arg.fields[i] = 110 * Scale
          /\ entry.book[arg.quad_ids[i]] = 100 * Scale
          /\ BookField(book, arg.quad_ids[i]) = 101 * Scale
          /\ LiveField(live, arg.quad_ids[i]) = 101 * Scale

\* C4: with the largest iteration cap the stepping loop always ends because no
\* quad needs a further step, strictly before iters reaches max_iters.
C4_CapNeverReached ==
    (pc = "final" /\ arg.max_iters = MaxIters) => (stop /\ iters < arg.max_iters)

\* Every live write of the running call directly follows a book write of the
\* same value to the same quad.
LiveFollowsBook ==
    \A k \in 1..Len(writes) :
        writes[k].chan = "live" =>
            /\ k > 1
            /\ writes[k - 1].chan = "book"
            /\ writes[k - 1].quad = writes[k].quad
            /\ writes[k - 1].val = writes[k].val

Written(q) == \E k \in 1..Len(writes) : writes[k].quad = q

C6_InvalidOption ==
    [][(call'.op \in {"get_field", "set_field"} /\ call'.opt \notin {"model", "live", "book"}) =>
          /\ call'.raised = "ValueError"
          /\ model' = model
          /\ live' = live
          /\ book' = book]_vars

C6_Witness ==
    /\ call.op = "set_field"
    /\ call.opt = "bogus"
    /\ call.raised = "ValueError"
    /\ live # [p \in Supplies |-> LiveAtStart(p)]

Representative(d) == CHOOSE q \in IndQuads : MainSupply(q) = MainSupply(d)

\* C7: after set_field(q, f, 'model') on an independent quad q the model field
\* of q and of every quad sharing its supply is f; and a dependent quad that has
\* the model field of its representative keeps having it through every
\* operation other than a model write addressed to a dependent quad.
C7_SharedPower ==
    [][/\ (call'.op = "set_field" /\ call'.opt = "model" /\ call'.args[1] \in IndQuads) =>
             \A d \in Quads :
                MainSupply(d) = MainSupply(call'.args[1]) => model'[d] = call'.args[2]
       /\ ~(call'.op = "set_field" /\ call'.opt = "model" /\ call'.args[1] \notin IndQuads) =>
             \A d \in Quads \ IndQuads :
                model[d] = model[Representative(d)] => model'[d] = model'[Representative(d)]]_vars

C7_Witness ==
    /\ call.op = "set_field"
    /\ call.opt = "model"
    /\ call.args[1] = "QH18"
    /\ call.args[2] = -100 * Scale
    /\ model["QH18"] = -100 * Scale
    /\ model["QH20"] = -100 * Scale

\* C8: safe_sync(scenario, 'live') never lets the failure of the live resync
\* out: after it the scenario is put in design mode and resynced once, and
\* 'design' is returned; if the live resync succeeds 'live' is returned and no
\* design resync is made; the returned mode is the mode of the latest
\* successful resync.
C8_SafeSyncLive ==
    (call.op = "safe_sync" /\ call.opt = "live") =>
        /\ Len(call.log) >= 1
        /\ call.log[1].mode = "live"
        /\ call.log[1].ok =>
              /\ Len(call.log) = 1
              /\ call.raised = "none"
              /\ sync_mode = "live"
              /\ scenario_mode = "live"
        /\ ~call.log[1].ok =>
              /\ Len(call.log) = 2
              /\ call.log[2].mode = "design"
              /\ scenario_mode = "design"
              /\ call.raised = "none" <=> call.log[2].ok
              /\ call.raised = "none" => sync_mode = "design"
        /\ call.raised = "none" => sync_mode = synced

C8_Witness ==
    /\ call.op = "safe_sync"
    /\ call.opt = "live"
    /\ Len(call.log) = 2
    /\ call.raised = "none"
    /\ sync_mode = "design"
    /\ synced = "design"
    /\ model = SyncSource("design", live)

\* C9: after restore_default_optics('model') every independent quad has the
\* model field read by the latest set_current_optics_as_default, and no
\* operation other than set_current_optics_as_default changes default_fields.
C9_RestoreDefault ==
    [][/\ call'.op = "restore_default_optics" =>
             \A i \in 1..Len(ind_quad_ids) : model'[ind_quad_ids[i]] = captured'[i]
       /\ call'.op # "set_current_optics_as_default" => default_fields' = default_fields]_vars

C9_Witness ==
    /\ call.op = "restore_default_optics"
    /\ captured = <<-100 * Scale, 110 * Scale>>
    /\ model["QH18"] = -100 * Scale
    /\ model["QV19"] = 110 * Scale
    /\ trajectory.fields["QH18"] # model["QH18"]

\* C10: get_phases_for_scan leaves the model field of every quad, the live and
\* book fields, default_fields, default_betas_at_target and the cached
\* trajectory as they were.
C10_ScanLeavesState ==
    [][call'.op = "get_phases_for_scan" =>
          /\ model' = model
          /\ live' = live
          /\ book' = book
          /\ default_fields' = default_fields
          /\ default_betas_at_target' = default_betas_at_target
          /\ trajectory' = trajectory]_vars

\* C11: the centre (mux0, muy0) of the window built by get_phases_for_scan is
\* the phase advance at the reference wire-scanner of the trajectory tracked
\* with the default optics (default_fields set on the independent quads, at the
\* current kinetic energy), whatever the model fields and the cached trajectory
\* were when it was called.
C11_CentredOnDefault ==
    [][call'.op = "get_phases_for_scan" =>
          call'.ret.centre =
              phases(Track(SetFieldsOn(model, ind_quad_ids, default_fields), kinetic_energy),
                     ref_ws_id)]_vars

IsScan == call.op = "get_phases_for_scan"

IsRange == call.op = "lin_phase_range"

\* C12 as stated: get_phases_for_scan returns exactly n_steps pairs for every
\* n_steps >= 1 and for scan_type 1 and 2.
C12_ExactlyNSteps ==
    (IsScan /\ call.args[2] >= 1 /\ call.args[3] \in {1, 2}) =>
        /\ call.raised = "none"
        /\ Len(call.ret.phases) = call.args[2]

\* C12 amended: get_phases_for_scan returns exactly n_steps pairs for scan_type
\* 1 and every n_steps >= 2, and for scan_type 2 and every even n_steps >= 4.
\* It raises ZeroDivisionError for scan_type 1 with n_steps = 1 and for
\* scan_type 2 with n_steps 2 or 3, and returns n_steps - 1 pairs for scan_type
\* 2 with an odd n_steps >= 5.
C12_NStepsWhenEven ==
    (IsScan /\ call.args[2] >= 1 /\ call.args[3] \in {1, 2}) =>
        LET n_steps == call.args[2]
            scan_type == call.args[3]
        IN /\ (scan_type = 1 /\ n_steps >= 2) =>
                 (call.raised = "none" /\ Len(call.ret.phases) = n_steps)
           /\ (scan_type = 2 /\ n_steps >= 4 /\ n_steps % 2 = 0) =>
                 (call.raised = "none" /\ Len(call.ret.phases) = n_steps)
           /\ ((scan_type = 1 /\ n_steps = 1) \/ (scan_type = 2 /\ n_steps \in {2, 3})) =>
                 call.raised = "ZeroDivisionError"
           /\ (scan_type = 2 /\ n_steps >= 5 /\ n_steps % 2 = 1) =>
                 (call.raised = "none" /\ Len(call.ret.phases) = n_steps - 1)

C12_Witness ==
    /\ IsScan
    /\ call.args = <<90, 6, 2>>
    /\ call.raised = "none"
    /\ Len(call.ret.phases) = 6
    /\ call.ret.mu0 = <<2 * Deg15, 11 * Deg15>>
    /\ call.ret.phases[1] = <<23 * Deg15, 11 * Deg15>>
    /\ call.ret.phases[6] = <<2 * Deg15, 14 * Deg15>>

\* C13: with scan_type 1, any phase_coverage and any even n_steps >= 6, the x
\* phases step in n_steps - 1 equal steps across the window from
\* mux0 - coverage/2 to mux0 + coverage/2 (mod 2pi), and the y phases step
\* across the window around muy0 in the reverse order.
C13_OppositeSweeps ==
    (IsScan /\ call.args[3] = 1 /\ call.args[2] >= 6 /\ call.args[2] % 2 = 0) =>
        LET n_steps == call.args[2]
            coverage == radians(call.args[1])
            mux0 == call.ret.mu0[1]
            muy0 == call.ret.mu0[2]
            P == call.ret.phases
        IN /\ call.raised = "none"
           /\ Len(P) = n_steps
           /\ \A k \in 1..Len(P) :
                 /\ P[k][1] = (mux0 - (coverage \div 2)
                                  + ((k - 1) * coverage) \div (n_steps - 1)) % TwoPi
                 /\ P[k][2] = (muy0 - (coverage \div 2)
                                  + ((n_steps - k) * coverage) \div (n_steps - 1)) % TwoPi

Min(x, y) == IF x < y THEN x ELSE y

\* C14: lin_phase_range(mu_min, mu_max, n, endpoint=True) with n >= 2 returns n
\* phases, the first being mu_min wrapped into [0, 2pi), and consecutive phases
\* differ (mod 2pi) by min(|mu_max - mu_min|, 2pi - |mu_max - mu_min|) / (n - 1);
\* from 0 to pi/2 with n = 4 the steps are pi/6.
C14_StepsOfRange ==
    (IsRange /\ call.args[4] /\ call.args[3] >= 2) =>
        LET mu_min == call.args[1]
            mu_max == call.args[2]
            n == call.args[3]
            d == Abs(mu_max - mu_min)
            num == Min(d, TwoPi - d)
        IN /\ call.raised = "none"
           /\ Len(call.ret) = n
           /\ call.ret[1] = mu_min % TwoPi
           /\ \A k \in 1..(Len(call.ret) - 1) :
                 (call.ret[k + 1] - call.ret[k] - Quot(num, n - 1)) % TwoPi = 0
           /\ (mu_min = 0 /\ mu_max = 6 * Deg15 /\ n = 4) =>
                 call.ret = <<0, 2 * Deg15, 4 * Deg15, 6 * Deg15>>

\* C15: every phase of the list returned by lin_phase_range, the first
\* included, lies in [0, 2pi), for mu_min and mu_max inside or outside [0, 2pi).
C15_PhasesInRange ==
    (IsRange /\ call.raised = "none") =>
        \A k \in 1..Len(call.ret) : 0 <= call.ret[k] /\ call.ret[k] < TwoPi

\* C16: with endpoint=True, mu_min and mu_max in [0, 2pi) and n_steps >= 2, the
\* last phase returned by lin_phase_range equals mu_max modulo 2pi.
C16_InclusiveEndpoint ==
    (/\ IsRange
     /\ call.args[4]
     /\ call.args[3] >= 2
     /\ 0 <= call.args[1] /\ call.args[1] < TwoPi
     /\ 0 <= call.args[2] /\ call.args[2] < TwoPi) =>
        /\ call.raised = "none"
        /\ call.ret[Len(call.ret)] % TwoPi = call.args[2] % TwoPi

\* C17: reconstruct(..., constr=True) returns the linear least-squares Sigma
\* without running the solver exactly when that Sigma is physical (eigenvalues
\* not negative, determinant not negative, eps_x * eps_y >= eps_1 * eps_2).
C17_LinearIffPhysical ==
    (call.op = "reconstruct" /\ call.args[2]) =>
        ((call.raised = "none" /\ call.ret.path = "linear" /\ call.ret.Sigma = call.args[1])
            <=> is_valid_cov(call.args[1]))

\* C18: in every evaluation of get_cov, d = b * c / a when a # 0; d = 0 when
\* a = 0 and b = 0 or c = 0; and when a = 0 and neither b nor c is 0 the
\* evaluation raises ValueError, yields no covariance matrix and ends
\* reconstruct with that error.
C18_DependentParameter ==
    call.op = "reconstruct" =>
        \A k \in 1..Len(call.log) :
            LET e == call.log[k]
                a == e.args[1]
                b == e.args[2]
                c == e.args[3]
            IN /\ a # 0 =>
                     /\ e.raised = "none"
                     /\ e.cov.d[2] # 0
                     /\ e.cov.d[1] * a = b * c * e.cov.d[2]
               /\ (a = 0 /\ (b = 0 \/ c = 0)) =>
                     /\ e.raised = "none"
                     /\ e.cov.d[1] = 0
               /\ (a = 0 /\ b # 0 /\ c # 0) =>
                     /\ e.raised = "ValueError"
                     /\ e.cov = <<>>
                     /\ k = Len(call.log)
                     /\ call.raised = "ValueError"
                     /\ call.ret.Sigma = <<>>

C18_Witness ==
    /\ call.op = "reconstruct"
    /\ Len(call.log) = 2
    /\ call.log[1].args = <<1, 1, -1>>
    /\ call.log[1].cov.d = <<-1, 1>>
    /\ call.log[2].args = <<0, 2, 2>>
    /\ call.log[2].raised = "ValueError"
    /\ call.raised = "ValueError"

\* The 'Calculate model optics' handler has run to its end.
Completed == call.op = "calculate_model_optics" /\ call.raised = "none" /\ calc.pc = "idle"

\* C19: after 'Calculate model optics' completes, model_fields_list holds one
\* entry per step of the scan list, in step order; entry k holds the model
\* field of each independent quad, in ind_quad_ids order, as the solve of step
\* k left it; entries of an earlier calculation are gone.
C19_OneEntryPerStep ==
    Completed =>
        /\ Len(model_fields_list) = Len(calc.phases)
        /\ Len(calc.solved) = Len(calc.phases)
        /\ \A k \in 1..Len(model_fields_list) :
              /\ Len(model_fields_list[k]) = Len(ind_quad_ids)
              /\ \A i \in 1..Len(ind_quad_ids) :
                    model_fields_list[k][i] = calc.solved[k][ind_quad_ids[i]]

C19_Witness ==
    /\ Completed
    /\ calc.discarded
    /\ Len(calc.phases) = 3
    /\ Len(model_fields_list) = 3
    /\ model_fields_list[1] # model_fields_list[3]

\* C20: after 'Calculate model optics' completes, the model field of every
\* independent quad is its stored default field and the cached trajectory is
\* the one tracked with the model in that state, whatever the solves left.
C20_DefaultRestored ==
    Completed =>
        /\ GetFields(model, ind_quad_ids) = default_fields
        /\ trajectory = Track(model, kinetic_energy)

C20_Witness ==
    /\ Completed
    /\ Len(calc.solved) >= 2
    /\ GetFields(calc.solved[Len(calc.solved)], ind_quad_ids) # default_fields
    /\ GetFields(model, ind_quad_ids) = default_fields
    /\ default_fields # <<110 * Scale, -100 * Scale>>
\* C26: in set_fields live mode every loop iteration ends with one sleep, a quad
\* is written at most once between two sleeps, and so at least one sleep lies
\* between any two live writes to the same quad, the final write included.
C26_SleepBetweenWrites ==
    InRamp =>
        /\ pc \in {"loop", "final", "done"} => sleeps = iters
        /\ pc = "body" => sleeps = iters - 1
        /\ \A j \in 1..Len(writes), k \in 1..Len(writes) :
              (j < k /\ writes[j].chan = "live" /\ writes[k].chan = "live"
                     /\ writes[j].quad = writes[k].quad)
              => writes[k].at >= writes[j].at + 1

C26_Witness ==
    /\ pc = "done"
    /\ iters = MaxIters
    /\ \E j \in 1..Len(writes), k \in 1..Len(writes), l \in 1..Len(writes) :
          /\ j < k /\ k < l
          /\ writes[j].chan = "live" /\ writes[k].chan = "live" /\ writes[l].chan = "live"
          /\ writes[j].quad = writes[k].quad /\ writes[k].quad = writes[l].quad
          /\ writes[j].at = 0 /\ writes[k].at = 1 /\ writes[l].at = MaxIters

\* C28: in every reachable state default_betas_at_target is the pair of beta
\* functions at the target of the trajectory tracked with default_fields set on
\* the independent quads, at the current kinetic energy.
C28_DefaultStateConsistent ==
    default_betas_at_target =
        beta_funcs(Track(SetFieldsOn(model, ind_quad_ids, default_fields), kinetic_energy),
                   "RTBT:Tgt")

\* C29: when set_ref_ws_phases returns, the model fields of the quads it varied
\* (QH18 through QV19) are the field values it returns, whichever trial the
\* optimizer evaluated last.
C29_ModelHoldsReturnedFields ==
    [][call'.op = "set_ref_ws_phases" =>
          GetFields(model', SubSeq(ind_quad_ids, IndexIn(ind_quad_ids, "QH18"),
                                   IndexIn(ind_quad_ids, "QV19")))
              = call'.ret]_vars

MaxBetasUpTo(twiss, ws) ==
    LET hi == IndexIn(TwissNodes, ws)
    IN <<MaxOf({twiss[i][1] : i \in 1..(hi - 1)}), MaxOf({twiss[i][2] : i \in 1..(hi - 1)})>>

\* C25: the beta penalty of set_ref_ws_phases is the sum over the x and y
\* planes of clip(max_beta - beta_limit, 0) squared, max_beta being the largest
\* beta function between QH02 and the reference wire-scanner selected on the
\* controller; it is zero exactly when neither plane exceeds its limit.
\* C25 as stated
C25_BetaPenalty ==
    call.op = "penalty_function" =>
        LET mb == MaxBetasUpTo(call.args[2], call.args[1])
            lims == call.args[3]
        IN /\ call.ret = clip(mb[1] - lims[1], 0) ^ 2 + clip(mb[2] - lims[2], 0) ^ 2
           /\ call.ret = 0 <=> (mb[1] <= lims[1] /\ mb[2] <= lims[2])

\* C25 amended: the penalty is the square of the sum over the x and y planes of
\* clip(max_beta - beta_limit, 0), max_beta being the largest beta function
\* from QH02 up to WS24 whichever reference wire-scanner is selected; it is
\* zero exactly when neither plane exceeds its limit.
C25_SquareOfSumUpToWS24 ==
    call.op = "penalty_function" =>
        LET mb == MaxBetasUpTo(call.args[2], "RTBT_Diag:WS24")
            lims == call.args[3]
        IN /\ call.ret = (clip(mb[1] - lims[1], 0) + clip(mb[2] - lims[2], 0)) ^ 2
           /\ call.ret = 0 <=> (mb[1] <= lims[1] /\ mb[2] <= lims[2])

C25_Witness ==
    /\ call.op = "penalty_function"
    /\ call.args[1] = "RTBT_Diag:WS20"
    /\ call.args[3] = <<40, 40>>
    /\ MaxBetasUpTo(call.args[2], "RTBT_Diag:WS20") = <<30, 30>>
    /\ MaxBetasUpTo(call.args[2], "RTBT_Diag:WS24") = <<50, 50>>
    /\ call.ret = 400

\* C21: the ramp of the live machine started by 'Set from scan' runs with the
\* sleep time and the max fractional change read from the panel, for 'default'
\* and for a numeric scan step alike.
C21_RampUsesPanelParameters ==
    (call.op = "set_live_optics_1" /\ InRamp) =>
        /\ arg.sleep_time = call.args[2].sleep_time
        /\ arg.max_frac_change = call.args[2].max_frac_change

\* C27: every numeric index the scan-index dropdown offers has a stored field
\* list, whenever 'Set from scan' can be invoked.
C27_IndexHasStoredFields ==
    (pc = "idle" /\ calc.pc = "idle") =>
        \A i \in 0..(scan_index_items - 1) : i < Len(model_fields_list)

\* C22: when 'Set manually' has completed, the live field and the book field of
\* every independent quad equal its model field.
C22_LiveSyncedWithModel ==
    (call.op = "set_live_optics_2" /\ call.raised = "none" /\ pc \in {"done", "idle"}) =>
        \A q \in IndQuads :
            /\ LiveField(live, q) = model[q]
            /\ BookField(book, q) = model[q]

C22_Witness ==
    /\ call.op = "set_live_optics_2"
    /\ call.raised = "none"
    /\ pc = "done"
    /\ iters = MaxIters
    /\ call.args[1].max_frac_change = <<1, 2>>
    /\ \A q \in IndQuads :
          /\ entry.live[q] # model[q]
          /\ LiveField(live, q) = model[q]
          /\ BookField(book, q) = model[q]

\* C23: when the window of the basic GUI is closed, a GUI working on the live
\* machine has restored the default optics by the time the process exits (the
\* live and the book field of every independent quad equal its default field,
\* and sys.exit comes only after set_fields has returned), and a GUI with
\* live = False exits without writing a live or book field.
C23_DefaultRestoredBeforeExit ==
    [][pc' = "exited" =>
          IF call'.args[1]
          THEN /\ pc = "done"
               /\ \A i \in 1..Len(ind_quad_ids) :
                     /\ LiveField(live', ind_quad_ids[i]) = default_fields'[i]
                     /\ BookField(book', ind_quad_ids[i]) = default_fields'[i]
          ELSE /\ pc = "idle"
               /\ live' = live
               /\ book' = book
               /\ writes' = writes]_vars

C23_Witness ==
    /\ pc = "exited"
    /\ call.args[1]
    /\ iters = MaxIters
    /\ \A i \in 1..Len(ind_quad_ids) :
          /\ entry.live[ind_quad_ids[i]] # default_fields[i]
          /\ entry.book[ind_quad_ids[i]] # default_fields[i]
          /\ LiveField(live, ind_quad_ids[i]) = default_fields[i]

\* C24: every transfer matrix get_scan_info stores for a measurement was
\* generated on the scenario synchronized to that measurement's PVLoggerID;
\* moments_dict and tmats_dict have the same nodes and, for each node, lists of
\* the same length whose k-th elements come from the same measurement, the
\* moments being that measurement's moments at the node.
C24_MatricesOfOwnSnapshot ==
    (call.op = "get_scan_info" /\ call.raised = "none") =>
        LET measurements == call.args[1]
            moments_dict == call.ret.dicts.moments_dict
            tmats_dict == call.ret.dicts.tmats_dict
        IN /\ DOMAIN moments_dict = DOMAIN tmats_dict
           /\ \A node \in DOMAIN tmats_dict :
                 /\ Len(moments_dict[node]) = Len(tmats_dict[node])
                 /\ \A k \in 1..Len(tmats_dict[node]) :
                       LET m == tmats_dict[node][k].meas
                       IN /\ moments_dict[node][k].meas = m
                          /\ tmats_dict[node][k].val.scenario = measurements[m].pvloggerid
                          /\ tmats_dict[node][k].val.stop = node
                          /\ moments_dict[node][k].val.node = node
                          /\ moments_dict[node][k].val.pvloggerid = measurements[m].pvloggerid
           /\ \A m \in 1..Len(measurements) : \A i \in 1..Len(measurements[m].node_ids) :
                 \E k \in 1..Len(tmats_dict[measurements[m].node_ids[i]]) :
                    tmats_dict[measurements[m].node_ids[i]][k].meas = m

C24_Witness ==
    /\ call.op = "get_scan_info"
    /\ call.raised = "none"
    /\ Len(call.args[1]) = MaxMeas
    /\ call.args[1][1].pvloggerid # call.args[2]
    /\ call.args[1][2].pvloggerid # call.args[1][1].pvloggerid
    /\ call.args[1][1].node_ids # call.args[1][2].node_ids
    /\ Len(call.ret.dicts.tmats_dict["RTBT_Diag:WS24"]) = 2
    /\ call.ret.dicts.tmats_dict["RTBT_Diag:WS24"][2].meas = 3

====
